---- MODULE Spec2Model ----
(***************************************************************************)
(* Model of the OJS resource extraction in src/src/execute/engine.ts       *)
(* (extract-resources): path resolution, the worklist traversal of         *)
(* extractResourceDescriptionsFromOJSChunk, resolveImport with its tsc     *)
(* fallback, the plain-mode output                                         *)
(* extractResolvedResourceFilenamesFromQmd, and makeSelfContainedResources.*)
(*                                                                         *)
(* A path string is modelled as the sequence of its "/"-separated          *)
(* segments: "/proj/sub/a.js" is <<"", "proj", "sub", "a.js">>,            *)
(* "./a.js" is <<".", "a.js">>, "data.csv" is <<"d.csv">>.                 *)
(***************************************************************************)
EXTENDS Integers, Sequences, FiniteSets, TLC

\* ------------------------------------------------------------------ bounds
\* total number of references (imports and FileAttachment literals) in the
\* sources the run reads: the document's cells and the files it follows
MaxRefs == 3
\* number of {ojs} cells breakQuartoMd finds in the document
MaxCells == 2
\* references in a source text that the parser rejects
MaxBrokenRefs == 1

\* ------------------------------------------------------------ environment
MdDir == <<"", "proj", "sub">>
ProjDir == <<"", "proj">>
Cwd == <<"", "proj">>
Undefined == <<"undefined">>
ProjectRoots == {Undefined, ProjDir}

StringLiteral(v) == [type |-> "string", value |-> v]

\* the strings the sources of one run are written with, one vocabulary per
\* kind of document
Vocabularies ==
  { \* modules in two directories, one of them under two spellings
    [imports |-> {<<".", "a.js">>, <<"..", "sub", "a.js">>,
                  <<"..", "lib", "m.ojs">>},
     lits |-> {}],
    \* root-relative imports
    [imports |-> {<<"", "lib", "a.js">>, <<"..", "lib", "m.ojs">>},
     lits |-> {}],
    \* imports of documents
    [imports |-> {<<".", "x.qmd">>, <<".", "a.js">>}, lits |-> {}],
    \* imports that are not local sources
    [imports |-> {<<".", "d.csv">>, <<"lodash">>, <<".", "a.js">>},
     lits |-> {}],
    \* attachments of the document and of an imported module
    [imports |-> {<<"..", "lib", "m.ojs">>},
     lits |-> {StringLiteral(<<"d.csv">>), StringLiteral(<<"", "d.csv">>)}],
    \* attachments that are documents or are not strings
    [imports |-> {<<".", "a.js">>},
     lits |-> {StringLiteral(<<"n.qmd">>),
               [type |-> "number", value |-> <<"42">>]}] }

SeqsUpTo(S, n) == UNION {[1..k -> S] : k \in 0..n}

\* ------------------------------------------------------- string functions
\* the extension of a file name (String.prototype.endsWith on the last
\* segment): the name universe is finite, so the suffix test is a table
Ext(name) ==
  CASE name \in {"a.js"} -> "js"
    [] name \in {"a.ts"} -> "ts"
    [] name \in {"m.ojs"} -> "ojs"
    [] name \in {"x.qmd", "n.qmd", "<<root>>.qmd"} -> "qmd"
    [] name \in {"d.csv"} -> "csv"
    [] OTHER -> ""

Last(s) == s[Len(s)]
EndsWith(path, ext) == Len(path) > 0 /\ Ext(Last(path)) = ext

\* String.prototype.replace(/.js$/, ".ts") and (/.ts$/, ".js") on a name
ReplaceExt(name, from, to) ==
  IF Ext(name) # from THEN name
  ELSE CASE name = "a.js" /\ to = "ts" -> "a.ts"
         [] name = "a.ts" /\ to = "js" -> "a.js"
         [] OTHER -> name

ReplaceExtPath(path, from, to) ==
  IF path = <<>> THEN path
  ELSE SubSeq(path, 1, Len(path) - 1) \o <<ReplaceExt(Last(path), from, to)>>

\* s.startsWith("/") and s.startsWith(".")
StartsWithSlash(s) == Len(s) > 0 /\ s[1] = ""
StartsWithDot(s) == Len(s) > 0 /\ s[1] \in {".", "..", "..."}

\* `.${s}`: the string s with a "." put in front of it
DotPrefix(s) ==
  IF s = <<>> THEN <<".">>
  ELSE <<CASE s[1] = "" -> "."
           [] s[1] = "." -> ".."
           [] s[1] = ".." -> "..."
           [] OTHER -> ".">> \o Tail(s)

\* ------------------------------------------------------------ path/mod.ts
RECURSIVE NormAcc(_, _)
NormAcc(acc, s) ==
  IF s = <<>> THEN acc
  ELSE LET h == Head(s) IN
    IF h = "" \/ h = "." THEN NormAcc(acc, Tail(s))
    ELSE IF h = ".."
      THEN NormAcc(IF Len(acc) > 0 THEN SubSeq(acc, 1, Len(acc) - 1) ELSE acc,
                   Tail(s))
      ELSE NormAcc(Append(acc, h), Tail(s))

\* the segments of a normalized absolute path
Normalize(s) == NormAcc(<<>>, s)
Abs(segs) == <<"">> \o segs

\* resolve(...paths): right to left until an absolute path is found
resolve2(a, b) ==
  IF StartsWithSlash(b) THEN Abs(Normalize(b))
  ELSE IF StartsWithSlash(a) THEN Abs(Normalize(a \o b))
  ELSE Abs(Normalize(Cwd \o a \o b))

resolve3(a, b, c) ==
  IF StartsWithSlash(c) THEN Abs(Normalize(c)) ELSE resolve2(a, b \o c)

dirname(p) == IF Len(p) <= 1 THEN p ELSE SubSeq(p, 1, Len(p) - 1)

RECURSIVE CommonLen(_, _)
CommonLen(f, t) ==
  IF f = <<>> \/ t = <<>> THEN 0
  ELSE IF Head(f) = Head(t) THEN 1 + CommonLen(Tail(f), Tail(t)) ELSE 0

\* relative(from, to)
relative(from, to) ==
  LET f == Normalize(resolve2(Cwd, from))
      t == Normalize(resolve2(Cwd, to))
      k == CommonLen(f, t)
  IN [i \in 1..(Len(f) - k) |-> ".."] \o SubSeq(t, k + 1, Len(t))

\* ------------------------------------------------------------------ state
VARIABLES
  projectRoot,    \* the projectRoot argument, or Undefined
  vocab,          \* the vocabulary of the sources of this run
  fs,             \* the part of the file system read so far: path -> file
  refsUsed,       \* references in the sources read so far
  cellsDone,      \* cells whose extraction has returned
  chunk,          \* ojsSource of the running extraction
  result,         \* result of extractResourceDescriptionsFromOJSChunk
  previous,       \* ojsSource and returned list of the call before this one
  handled,        \* handled
  imports,        \* imports (a Map: entries in insertion order)
  visitLog,       \* paths whose source was read and searched for references
  diags,          \* warnings written to console.error in this call
  cleanups,       \* callbacks attached to the "render-services" lifetime
  compiles,       \* the compiler starts of this call and their reports
  pageResources,  \* pageResources of extractResolvedResourceFilenamesFromQmd
  output,         \* what extractResolvedResourceFilenamesFromQmd returns
  bundles,        \* the inputs esbuildCompile was called with
  selfContained,  \* what makeSelfContainedResources returns
  pc,             \* "start", "loop", "returned", "aborted", "done", "packed"
  abortCause      \* why the call threw

\* the variables of the resource extraction
engineVars == <<projectRoot, vocab, previous, fs, refsUsed, cellsDone, chunk,
                result, handled,
                imports, visitLog, diags, cleanups, compiles, pageResources,
                output, bundles, selfContained, pc, abortCause>>

\* the state of one call of withPuppeteerBrowserAndPage or inPuppeteer
\* (src/src/core/lib/yaml-intelligence/types.ts)
VARIABLES
  callee,         \* the function that was called, or "none"
  attempts,       \* attempts
  outcomes,       \* what withHeadlessBrowser did in each attempt so far
  retries,        \* the "Retrying" lines written to console.log
  control,        \* "idle", "running", "returned", "threw"
  returned,       \* the value the call returned
  thrown          \* the error the call threw

puppeteerVars ==
  <<callee, attempts, outcomes, retries, control, returned, thrown>>

vars == <<engineVars, puppeteerVars>>

\* the value of thrown when nothing was thrown
NoError == [message |-> "", origin |-> "none"]

\* no call of the puppeteer functions is made
PuppeteerIdle ==
  /\ callee = "none"
  /\ attempts = 0
  /\ outcomes = <<>>
  /\ retries = 0
  /\ control = "idle"
  /\ returned = "none"
  /\ thrown = NoError

\* a file that cannot be read
Missing == [exists |-> FALSE, ok |-> FALSE, imports |-> <<>>, atts |-> <<>>]

Range(f) == {f[i] : i \in DOMAIN f}

\* source texts with at most n references that parse
GoodSources(n) ==
  UNION { { [exists |-> TRUE, ok |-> TRUE, imports |-> i, atts |-> a] :
              a \in SeqsUpTo(vocab.lits, n - Len(i)) } :
          i \in SeqsUpTo(vocab.imports, n) }

\* source texts that the parser rejects with a SyntaxError; a rejected text
\* without references behaves as an empty one
BrokenSources(n) ==
  LET m == IF n < MaxBrokenRefs THEN n ELSE MaxBrokenRefs IN
  { s \in UNION { { [exists |-> TRUE, ok |-> FALSE, imports |-> i, atts |-> a] :
                      a \in SeqsUpTo(vocab.lits, m - Len(i)) } :
                  i \in SeqsUpTo(vocab.imports, m) } :
      Len(s.imports) + Len(s.atts) > 0 }

\* the sources a read can find with the references left
SourcesWithin(n) == GoodSources(n) \cup BrokenSources(n)

\* what a read of path p can find: what an earlier read found, or, for a
\* path not read before, any file the remaining budget allows
Reveal(p) ==
  IF p \in DOMAIN fs THEN {fs[p]}
  ELSE {Missing} \cup SourcesWithin(MaxRefs - refsUsed)

Learn(p, c) == IF p \in DOMAIN fs THEN fs ELSE fs @@ (p :> c)
Cost(p, c) ==
  IF p \in DOMAIN fs THEN 0 ELSE Len(c.imports) + Len(c.atts)

rootReferent == MdDir \o <<"<<root>>.qmd">>

\* ------------------------------------------------------ directDependencies
\* a resolver that does not look at the project root
resolveES6PathIgnoresRoot(path, originDir, root) ==
  IF StartsWithSlash(path)
  THEN [pathType |-> "root-relative",
        resolvedImportPath |-> resolve2(originDir, DotPrefix(path))]
  ELSE [pathType |-> "relative",
        resolvedImportPath |-> resolve2(originDir, path)]

resolveES6Path(path, originDir, root) ==
  IF StartsWithSlash(path)
  THEN IF root = Undefined
       THEN [pathType |-> "root-relative",
             resolvedImportPath |-> resolve2(originDir, DotPrefix(path))]
       ELSE [pathType |-> "root-relative",
             resolvedImportPath |-> resolve2(root, DotPrefix(path))]
  ELSE [pathType |-> "relative",
        resolvedImportPath |-> resolve2(originDir, path)]

RECURSIVE localImports(_)
\* an import walker that keeps every source string
localImportsKeepsAll(srcImports) == srcImports
\* localImports, lines 787-808
localImports(srcImports) ==
  IF srcImports = <<>> THEN <<>>
  ELSE LET source == Head(srcImports) IN
    (IF StartsWithSlash(source) \/ StartsWithDot(source)
     THEN <<source>> ELSE <<>>) \o localImports(Tail(srcImports))

\* dependencies that are also taken from a text the parser rejects
directDependenciesOfBroken(source, fileDir, root) ==
  LET li == localImports(source.imports) IN
  [i \in 1..Len(li) |->
     LET r == resolveES6Path(li[i], fileDir, root) IN
     [resolvedImportPath |-> r.resolvedImportPath,
      pathType |-> r.pathType,
      importPath |-> li[i]]]

\* parseES6 / parseModule / breakQuartoMd + parseModule: a SyntaxError gives
\* no dependencies
directDependencies(source, fileDir, root) ==
  IF ~source.ok THEN <<>>
  ELSE LET li == localImports(source.imports) IN
    [i \in 1..Len(li) |->
       LET r == resolveES6Path(li[i], fileDir, root) IN
       [resolvedImportPath |-> r.resolvedImportPath,
        pathType |-> r.pathType,
        importPath |-> li[i]]]

\* Map<string, ResourceDescription> keyed by resolved path, in insertion
\* order: has, set, delete, and entries().next().value
MapHas(m, k) == \E i \in 1..Len(m) : m[i].filename = k
MapSet(m, k, v) ==
  IF MapHas(m, k) THEN [i \in 1..Len(m) |-> IF m[i].filename = k THEN v ELSE m[i]]
  ELSE Append(m, v)
KeyIsNot(k, e) == e.filename # k
\* a delete that is forgotten, or placed after the "continue"
MapDeleteForgotten(m, k) == m
MapDelete(m, k) ==
  LET Keep(e) == KeyIsNot(k, e) IN SelectSeq(m, Keep)
MapFirst(m) == Head(m)

\* a handled.add that is forgotten
SetAddForgotten(set, k) == set
\* handled.add
SetAdd(set, k) == set \cup {k}

\* the body of the two for-loops over directDependencies (1028-1048 and
\* 1098-1118): st = [result, imports]
RECURSIVE AddDeps(_, _, _)
AddDeps(st, deps, referent) ==
  IF deps = <<>> THEN st
  ELSE LET d == Head(deps) IN
    IF ~MapHas(st.imports, d.resolvedImportPath)
    THEN LET v == [filename |-> d.resolvedImportPath,
                   referent |-> referent,
                   pathType |-> d.pathType,
                   importPath |-> d.importPath,
                   resourceType |-> "import"]
         IN AddDeps([result |-> Append(st.result, v),
                     imports |-> MapSet(st.imports, d.resolvedImportPath, v)],
                    Tail(deps), referent)
    ELSE AddDeps(st, Tail(deps), referent)

\* ------------------------------------------------------------------- Init
Init ==
  /\ projectRoot \in ProjectRoots
  /\ vocab \in Vocabularies
  /\ fs = <<>>
  /\ refsUsed = 0
  /\ cellsDone = 0
  /\ chunk = Missing
  /\ result = <<>>
  /\ previous = [source |-> Missing, result |-> <<>>]
  /\ handled = {}
  /\ imports = <<>>
  /\ visitLog = <<>>
  /\ diags = <<>>
  /\ cleanups = <<>>
  /\ compiles = <<>>
  /\ pageResources = <<>>
  /\ output = <<>>
  /\ bundles = <<>>
  /\ selfContained = <<>>
  /\ pc = "start"
  /\ abortCause = "none"
  /\ PuppeteerIdle

RefsIn(c) == Len(c.imports) + Len(c.atts)

\* the source of the next {ojs} cell. A cell without references adds nothing
\* to pageResources, so only a document of one cell has such a cell.
CellSources ==
  { c \in SourcesWithin(MaxRefs - refsUsed) :
      cellsDone > 0 => RefsIn(c) > 0 /\ RefsIn(chunk) > 0 }

\* extractResourceDescriptionsFromOJSChunk, lines 1020-1048: the call for
\* the next cell starts and seeds the worklist from the cell's source
BeginChunk ==
  /\ pc \in {"start", "returned"}
  /\ cellsDone < MaxCells
  /\ \E src \in CellSources :
       LET st == AddDeps([result |-> <<>>, imports |-> <<>>],
                         directDependencies(src, MdDir, projectRoot),
                         rootReferent)
       IN /\ chunk' = src
          /\ refsUsed' = refsUsed + Len(src.imports) + Len(src.atts)
          /\ result' = st.result
          /\ imports' = st.imports
  /\ previous' = [source |-> chunk, result |-> result]
  /\ handled' = {}
  /\ visitLog' = <<>>
  /\ diags' = <<>>
  /\ compiles' = <<>>
  /\ pc' = "loop"
  /\ UNCHANGED puppeteerVars
  /\ UNCHANGED <<projectRoot, vocab, bundles, selfContained>>
  /\ UNCHANGED <<fs, cellsDone, cleanups, pageResources,
                 output, abortCause>>

\* ---------------------------------------------------------- resolveImport
Put(f, p, c) == [q \in (DOMAIN f) \cup {p} |-> IF q = p THEN c ELSE f[q]]

tsFilenameOf(file) == ReplaceExtPath(file, "js", "ts")

\* a test that takes every path for a .js path
endsWithJsAlways(file) == TRUE
\* file.endsWith(".js") of line 947
endsWithJs(file) == EndsWith(file, "js")

\* the file names "tsc --listFilesOnly" prints (lines 963-977): the .ts file
\* itself when the run succeeds, nothing when it reports failure
filesToBeProcessed(file, listOk) ==
  IF listOk THEN <<relative(dirname(file), tsFilenameOf(file))>> ELSE <<>>

\* createdResources of resolveImport, lines 1005-1011
createdResources(file, referent, listOk) ==
  LET files == filesToBeProcessed(file, listOk)
  IN [i \in 1..Len(files) |->
        LET filename == files[i] IN
        [pathType |-> "relative",
         resourceType |-> "import",
         referent |-> referent,
         filename |-> resolve2(dirname(referent),
                               ReplaceExtPath(filename, "ts", "js")),
         importPath |-> ReplaceExtPath(filename, "ts", "js")]]

\* one start of the compiler pair of lines 963-993 and what it reported
Compile(file, listOk, emitOk) ==
  [file |-> file, listOk |-> listOk, emitOk |-> emitOk]

Language(path) ==
  IF EndsWith(path, "js") THEN "js"
  ELSE IF EndsWith(path, "ojs") THEN "ojs"
  ELSE IF EndsWith(path, "qmd") THEN "qmd"
  ELSE "unknown"

\* if (projectRoot) getNamedLifetime("render-services").attach(...)
AttachCleanup(created) ==
  IF projectRoot # Undefined THEN Append(cleanups, created) ELSE cleanups

\* ------------------------------------------------------- the worklist loop
\* every file is searched as if it were in the directory of the document
fileDirOfDocument(thisResolvedImportPath) == MdDir
\* dirname(thisResolvedImportPath) of line 1102
fileDir(thisResolvedImportPath) == dirname(thisResolvedImportPath)

Popping == pc = "loop" /\ imports # <<>>

\* lines 1051-1058: the popped path was handled before
LoopSkip ==
  /\ Popping
  /\ MapFirst(imports).filename \in handled
  /\ imports' = MapDelete(imports, MapFirst(imports).filename)
  /\ UNCHANGED puppeteerVars
  /\ UNCHANGED <<projectRoot, vocab, previous, bundles, selfContained>>
  /\ UNCHANGED <<fs, refsUsed, cellsDone, chunk, result,
                 handled, visitLog, diags, cleanups, compiles, pageResources,
                 output, pc, abortCause>>

\* lines 1051-1118 when the file is read: its references are enqueued
VisitRead ==
  /\ Popping
  /\ LET e == MapFirst(imports)
         p == e.filename
     IN /\ p \notin handled
        /\ Language(p) # "unknown"
        /\ \E c \in Reveal(p) :
             /\ c.exists
             /\ LET st == AddDeps([result |-> result,
                                   imports |-> MapDelete(imports, p)],
                                  directDependencies(c, fileDir(p),
                                                     projectRoot),
                                  p)
                IN /\ result' = st.result
                   /\ imports' = st.imports
             /\ fs' = Learn(p, c)
             /\ refsUsed' = refsUsed + Cost(p, c)
        /\ handled' = SetAdd(handled, p)
        /\ visitLog' = Append(visitLog, p)
        /\ cleanups' = AttachCleanup(<<>>)
  /\ UNCHANGED puppeteerVars
  /\ UNCHANGED <<projectRoot, vocab, previous, bundles, selfContained>>
  /\ UNCHANGED <<cellsDone, chunk, diags, compiles,
                 pageResources, output, pc, abortCause>>

\* lines 1085-1096: the file was read and its extension names no language
VisitUnknownLanguage ==
  /\ Popping
  /\ LET p == MapFirst(imports).filename
     IN /\ p \notin handled
        /\ Language(p) = "unknown"
        /\ \E c \in Reveal(p) :
             /\ c.exists
             /\ fs' = Learn(p, c)
             /\ refsUsed' = refsUsed + Cost(p, c)
        /\ handled' = SetAdd(handled, p)
  /\ imports' = MapDelete(imports, MapFirst(imports).filename)
  /\ cleanups' = AttachCleanup(<<>>)
  /\ pc' = "aborted"
  /\ abortCause' = "unknown-language"
  /\ UNCHANGED puppeteerVars
  /\ UNCHANGED <<projectRoot, vocab, previous, bundles, selfContained>>
  /\ UNCHANGED <<cellsDone, chunk, result, visitLog,
                 diags, compiles, pageResources, output>>

\* a warning that names the resolved path instead of the import string
warningNamesResolvedPath(importResource) ==
  [reference |-> importResource.filename, inFile |-> importResource.referent]
\* the console.error lines 1065-1069
warning(importResource) ==
  [reference |-> importResource.importPath,
   inFile |-> importResource.referent]

\* lines 1060-1071 with resolveImport returning undefined (945-958)
VisitUnresolved ==
  /\ Popping
  /\ LET e == MapFirst(imports)
         p == e.filename
         ts == tsFilenameOf(p)
     IN /\ p \notin handled
        /\ Missing \in Reveal(p)
        /\ IF endsWithJs(p)
           THEN /\ Missing \in Reveal(ts)
                /\ fs' = Put(Put(fs, p, Missing), ts, Missing)
           ELSE fs' = Put(fs, p, Missing)
        /\ handled' = SetAdd(handled, p)
        /\ diags' = Append(diags, warning(e))
  /\ imports' = MapDelete(imports, MapFirst(imports).filename)
  /\ UNCHANGED puppeteerVars
  /\ UNCHANGED <<projectRoot, vocab, previous, bundles, selfContained>>
  /\ UNCHANGED <<refsUsed, cellsDone, chunk, result,
                 visitLog, cleanups, compiles, pageResources, output, pc,
                 abortCause>>

\* resolveImport 952-1012 with a successful compile, then lines 1072-1118:
\* tsc emits the .js file, the .ts source is searched as js
VisitRecover ==
  /\ Popping
  /\ LET e == MapFirst(imports)
         p == e.filename
         ts == tsFilenameOf(p)
     IN /\ p \notin handled
        /\ endsWithJs(p)
        /\ Missing \in Reveal(p)
        /\ \E t \in Reveal(ts) :
             /\ t.exists
             /\ \E listOk \in BOOLEAN :
                  LET created == createdResources(p, e.referent, listOk)
                      st == AddDeps([result |-> result \o created,
                                     imports |-> MapDelete(imports, p)],
                                    directDependencies(t, fileDir(p),
                                                       projectRoot),
                                    p)
                  IN /\ result' = st.result
                     /\ imports' = st.imports
                     /\ cleanups' = AttachCleanup(created)
                     /\ compiles' = Append(compiles, Compile(p, listOk, TRUE))
             /\ fs' = Put(Put(fs, ts, t), p, t)
             /\ refsUsed' = refsUsed + Cost(ts, t)
        /\ handled' = SetAdd(handled, p)
        /\ visitLog' = Append(visitLog, p)
  /\ UNCHANGED puppeteerVars
  /\ UNCHANGED <<projectRoot, vocab, previous, bundles, selfContained>>
  /\ UNCHANGED <<cellsDone, chunk, diags, pageResources,
                 output, pc, abortCause>>

\* resolveImport 952-1000 when tsc reports failure: throw new Error()
VisitRecoverFails ==
  /\ Popping
  /\ LET p == MapFirst(imports).filename
         ts == tsFilenameOf(p)
     IN /\ p \notin handled
        /\ endsWithJs(p)
        /\ Missing \in Reveal(p)
        /\ \E t \in Reveal(ts) :
             /\ t.exists
             /\ fs' = Put(Put(fs, ts, t), p, Missing)
             /\ refsUsed' = refsUsed + Cost(ts, t)
        /\ handled' = SetAdd(handled, p)
        /\ \E listOk \in BOOLEAN :
             compiles' = Append(compiles, Compile(p, listOk, FALSE))
  /\ imports' = MapDelete(imports, MapFirst(imports).filename)
  /\ pc' = "aborted"
  /\ abortCause' = "compile-failed"
  /\ UNCHANGED puppeteerVars
  /\ UNCHANGED <<projectRoot, vocab, previous, bundles, selfContained>>
  /\ UNCHANGED <<cellsDone, chunk, result, visitLog,
                 diags, cleanups, pageResources, output>>

\* ------------------------------------------- after the loop: 1121-1200
FileAt(p) == IF p \in DOMAIN fs THEN fs[p] ELSE Missing

\* literalFileAttachments of a parsed source
literalFileAttachments(source) == source.atts

RECURSIVE Flatten(_)
Flatten(ss) == IF ss = <<>> THEN <<>> ELSE Head(ss) \o Flatten(Tail(ss))

\* a second pass that searches every imported file
secondPassReadsAll(filename) == TRUE
\* importFile.filename.endsWith(".ojs") of line 1123
secondPassReads(filename) == EndsWith(filename, "ojs")

\* lines 1121-1153: attachments of the imported .ojs files, then of the chunk
fileAttachments ==
  Flatten([i \in 1..Len(result) |->
             LET f == FileAt(result[i].filename) IN
             IF secondPassReads(result[i].filename) /\ f.ok
             THEN [j \in 1..Len(f.atts) |->
                     [filename |-> literalFileAttachments(f)[j],
                      referent |-> result[i].filename]]
             ELSE <<>>])
  \o (IF chunk.ok
      THEN [j \in 1..Len(chunk.atts) |->
              [filename |-> literalFileAttachments(chunk)[j],
               referent |-> rootReferent]]
      ELSE <<>>)

\* Deno.readTextFileSync of line 1125 throws NotFound, which is rethrown
SecondPassReadFails ==
  \E i \in 1..Len(result) :
     /\ EndsWith(result[i].filename, "ojs")
     /\ ~FileAt(result[i].filename).exists

\* filename.startsWith of line 1183 on a value that is not a string
AttachmentTypeError ==
  \E j \in 1..Len(fileAttachments) : fileAttachments[j].filename.type # "string"

\* a filter that keeps the documents
NotQmdKeepsAll(description) == TRUE
NotQmd(description) == ~EndsWith(description.filename, "qmd")

\* the raw import string is kept as the filename
toRelativeKeepsSpelling(description) ==
  [filename |-> description.importPath,
   referent |-> description.referent,
   importPath |-> description.importPath,
   pathType |-> description.pathType,
   resourceType |-> description.resourceType]

\* lines 1166-1179
toRelative(description) ==
  LET relName == relative(MdDir, description.filename) IN
  [filename |-> IF ~StartsWithDot(relName) THEN <<".">> \o relName
                ELSE relName,
   referent |-> description.referent,
   importPath |-> description.importPath,
   pathType |-> description.pathType,
   resourceType |-> description.resourceType]

\* lines 1181-1198
toAttachment(a) ==
  [referent |-> a.referent,
   filename |-> a.filename.value,
   importPath |-> Undefined,
   pathType |-> IF StartsWithSlash(a.filename.value) THEN "root-relative"
                ELSE "relative",
   resourceType |-> "FileAttachment"]

finalResult ==
  LET kept == SelectSeq(result, NotQmd) IN
  [i \in 1..Len(kept) |-> toRelative(kept[i])]
  \o [j \in 1..Len(fileAttachments) |-> toAttachment(fileAttachments[j])]

\* the call returns its resource list, which the caller appends to
\* pageResources (lines 881-887)
FinishChunk ==
  /\ pc = "loop"
  /\ imports = <<>>
  /\ ~SecondPassReadFails
  /\ ~AttachmentTypeError
  /\ result' = finalResult
  /\ pageResources' = pageResources \o finalResult
  /\ cellsDone' = cellsDone + 1
  /\ pc' = "returned"
  /\ UNCHANGED puppeteerVars
  /\ UNCHANGED <<projectRoot, vocab, previous, bundles, selfContained>>
  /\ UNCHANGED <<fs, refsUsed, chunk, handled, imports,
                 visitLog, diags, cleanups, compiles, output, abortCause>>

\* the call throws after the loop
FinishChunkThrows ==
  /\ pc = "loop"
  /\ imports = <<>>
  /\ SecondPassReadFails \/ AttachmentTypeError
  /\ pc' = "aborted"
  /\ abortCause' = IF SecondPassReadFails THEN "read-error" ELSE "type-error"
  /\ UNCHANGED puppeteerVars
  /\ UNCHANGED <<projectRoot, vocab, previous, bundles, selfContained>>
  /\ UNCHANGED <<fs, refsUsed, cellsDone, chunk, result,
                 handled, imports, visitLog, diags, cleanups, compiles,
                 pageResources, output>>

\* ------------------------------------- extractResolvedResourceFilenamesFromQmd
resolveResourceFilename(resource, rootDir) ==
  IF resource.pathType = "relative"
  THEN resolve3(rootDir, dirname(resource.referent), resource.filename)
  ELSE resolve3(rootDir, dirname(resource.referent),
                DotPrefix(resource.filename))

RECURSIVE uniqueAcc(_, _, _)
uniqueAcc(resourceList, res, seen) ==
  IF resourceList = <<>> THEN res
  ELSE LET resource == Head(resourceList) IN
    IF resource.filename \notin seen
    THEN uniqueAcc(Tail(resourceList), Append(res, resource),
                   seen \cup {resource.filename})
    ELSE uniqueAcc(Tail(resourceList), res, seen)

Reverse(s) == [i \in 1..Len(s) |-> s[Len(s) + 1 - i]]
\* a de-duplication in which the last occurrence of a filename wins
uniqueResourcesKeepsLast(resourceList) ==
  Reverse(uniqueAcc(Reverse(resourceList), <<>>, {}))
\* uniqueResources, lines 724-736
uniqueResources(resourceList) == uniqueAcc(resourceList, <<>>, {})

\* Array.from(new Set(...)): first occurrences in insertion order
RECURSIVE setOrder(_, _)
setOrder(s, res) ==
  IF s = <<>> THEN res
  ELSE setOrder(Tail(s),
                IF \E i \in 1..Len(res) : res[i] = Head(s) THEN res
                ELSE Append(res, Head(s)))

plainOutput ==
  LET u == uniqueResources(pageResources) IN
  setOrder([i \in 1..Len(u) |-> resolveResourceFilename(u[i], Cwd)], <<>>)

\* lines 891-898, after the last {ojs} cell of the document
QmdFinish ==
  /\ pc \in {"start", "returned"}
  /\ output' = plainOutput
  /\ pc' = "done"
  /\ UNCHANGED puppeteerVars
  /\ UNCHANGED <<projectRoot, vocab, previous, bundles, selfContained>>
  /\ UNCHANGED <<fs, refsUsed, cellsDone, chunk, result,
                 handled, imports, visitLog, diags, cleanups, compiles,
                 pageResources, abortCause>>

\* ------------------------------------------------ makeSelfContainedResources
\* asDataURL: the mime type and the base64 encoding of the content
asDataURL(content, mimeType) == [mimeType |-> mimeType, content |-> content]

\* the text Deno.readTextFileSync returns for a readable file: the texts of
\* two files are taken to differ
readTextFileSync(path) == [textOf |-> path]

\* lookup of media_types: the mime type of a file name
lookup(path) ==
  CASE Ext(Last(path)) = "csv" -> "text/csv"
    [] Ext(Last(path)) = "js" -> "application/javascript"
    [] OTHER -> "undefined"

IsJsImport(r) == r.resourceType = "import" /\ EndsWith(r.filename, "js")
IsOjsImport(r) == r.resourceType = "import" /\ EndsWith(r.filename, "ojs")
IsAttachment(r) == r.resourceType # "import"

jsFiles(resourceList) == SelectSeq(uniqueResources(resourceList), IsJsImport)
ojsFiles(resourceList) == SelectSeq(uniqueResources(resourceList), IsOjsImport)
attachments(resourceList) ==
  SelectSeq(uniqueResources(resourceList), IsAttachment)

\* the lines export * from "${r.filename}";
bundleInput(files) == [i \in 1..Len(files) |-> files[i].filename]

\* a bundler that is also run for an empty list of .js files
esbuildRunsAlways(files) == <<bundleInput(files)>>
\* lines 1229-1237: the inputs esbuildCompile is called with
esbuildRuns(files) ==
  IF Len(files) > 0 THEN <<bundleInput(files)>> ELSE <<>>

\* the module text esbuildCompile returns for an input
es6BundledModule(input, wd) == [bundleOf |-> input, wd |-> wd]

\* lines 1239-1243
jsModuleResolves(files, wd) ==
  IF Len(files) > 0
  THEN LET jsModule == asDataURL(es6BundledModule(bundleInput(files), wd),
                                 "application/javascript")
       IN [i \in 1..Len(files) |-> <<files[i].importPath, jsModule>>]
  ELSE <<>>

\* the path a relative file name given to Deno.readTextFileSync denotes
ojsPath(f) == resolve2(Cwd, f.filename)

\* lines 1246-1270
selfContainedResult(resourceList, wd) ==
  LET ojs == ojsFiles(resourceList)
      att == attachments(resourceList)
  IN jsModuleResolves(jsFiles(resourceList), wd)
     \o [i \in 1..Len(ojs) |->
           <<ojs[i].importPath,
             asDataURL(readTextFileSync(ojsPath(ojs[i])),
                       "application/ojs-javascript")>>]
     \o [i \in 1..Len(att) |->
           LET resolvedFileName == resolveResourceFilename(att[i], Cwd) IN
           <<att[i].filename,
             asDataURL(readTextFileSync(resolvedFileName),
                       lookup(resolvedFileName))>>]

\* the files lines 1253 and 1264 read
FilesRead(resourceList) ==
  {ojsPath(ojsFiles(resourceList)[i]) : i \in 1..Len(ojsFiles(resourceList))}
  \cup {resolveResourceFilename(attachments(resourceList)[i], Cwd) :
          i \in 1..Len(attachments(resourceList))}

\* a file that is read for its text only
Plain == [exists |-> TRUE, ok |-> TRUE, imports |-> <<>>, atts |-> <<>>]
CanBeRead(p) == IF p \in DOMAIN fs THEN fs[p].exists ELSE TRUE
CanBeMissing(p) == IF p \in DOMAIN fs THEN ~fs[p].exists ELSE TRUE

\* makeSelfContainedResources(pageResources, mdDir) returns: every file it
\* reads can be read and the bundler succeeds
MakeSelfContained ==
  /\ pc = "returned"
  /\ \A p \in FilesRead(pageResources) : CanBeRead(p)
  /\ fs' = [p \in DOMAIN fs \cup FilesRead(pageResources) |->
              IF p \in DOMAIN fs THEN fs[p] ELSE Plain]
  /\ bundles' = bundles \o esbuildRuns(jsFiles(pageResources))
  /\ selfContained' = selfContainedResult(pageResources, MdDir)
  /\ pc' = "packed"
  /\ UNCHANGED puppeteerVars
  /\ UNCHANGED <<projectRoot, vocab, previous, refsUsed, cellsDone, chunk,
                 result, handled, imports, visitLog, diags, cleanups,
                 compiles, pageResources, output, abortCause>>

\* makeSelfContainedResources throws: the bundler fails, or a file that is
\* to be inlined cannot be read
MakeSelfContainedThrows ==
  /\ pc = "returned"
  /\ \/ /\ Len(jsFiles(pageResources)) > 0
        /\ abortCause' = "bundle-failed"
        /\ fs' = fs
     \/ \E p \in FilesRead(pageResources) :
          /\ CanBeMissing(p)
          /\ fs' = Put(fs, p, Missing)
          /\ abortCause' = "read-error"
  /\ bundles' = bundles \o esbuildRuns(jsFiles(pageResources))
  /\ pc' = "aborted"
  /\ UNCHANGED puppeteerVars
  /\ UNCHANGED <<projectRoot, vocab, previous, refsUsed, cellsDone, chunk,
                 result, handled, imports, visitLog, diags, cleanups,
                 compiles, pageResources, output, selfContained>>

Next ==
  \/ BeginChunk
  \/ LoopSkip
  \/ VisitRead
  \/ VisitUnknownLanguage
  \/ VisitUnresolved
  \/ VisitRecover
  \/ VisitRecoverFails
  \/ FinishChunk
  \/ FinishChunkThrows
  \/ QmdFinish
  \/ MakeSelfContained
  \/ MakeSelfContainedThrows

Spec == Init /\ [][Next]_vars

\* ====================================================================
\* withPuppeteerBrowserAndPage and inPuppeteer
\* (src/src/core/lib/yaml-intelligence/types.ts, lines 117-285)
\* ====================================================================
allowedErrorMessages ==
  {"Navigation failed because browser has disconnected!",
   "Navigation timeout of 30000 ms exceeded",
   "Evaluation failed: undefined"}

maxAttempts == 5

\* the messages of the errors puppeteer and the callback raise
ErrorMessages == allowedErrorMessages \cup {"Protocol error"}

\* an error with message m raised in origin: "launch" (puppeteer.launch),
\* "page" (browser.newPage, page.goto) or "callback" (f, page.evaluate)
Error(m, origin) == [message |-> m, origin |-> origin]
Errors(origins) == {Error(m, o) : m \in ErrorMessages, o \in origins}

Return(v) == [kind |-> "return", value |-> v]
Throw(e) == [kind |-> "throw", error |-> e]

\* what fetchBrowser does: it returns undefined when no chromium is
\* installed, returns the launched browser, or puppeteer.launch throws
fetchBrowser ==
  {Return("undefined"), Return("browser")}
  \cup {Throw(e) : e \in Errors({"launch"})}

\* what the function given to withHeadlessBrowser does with a browser: it
\* opens the page, runs the callback and returns its result, or throws
callback ==
  {Return("result")} \cup {Throw(e) : e \in Errors({"page", "callback"})}

\* withHeadlessBrowser, lines 208-225: fn is not run without a browser, and
\* then the function returns undefined
withHeadlessBrowser(browser, fn) ==
  IF browser.kind = "throw" THEN browser
  ELSE IF browser.value # "undefined" THEN fn
  ELSE Return("undefined")

\* the condition of the catch blocks, lines 152-155 and 193-196
retried(error, n) == error.message \in allowedErrorMessages /\ n < maxAttempts

InternalError ==
  Error("Internal Error - shouldn't have arrived here.", "internal")

PuppeteerInit ==
  /\ projectRoot = Undefined
  /\ vocab = [imports |-> {}, lits |-> {}]
  /\ fs = <<>>
  /\ refsUsed = 0
  /\ cellsDone = 0
  /\ chunk = Missing
  /\ result = <<>>
  /\ previous = [source |-> Missing, result |-> <<>>]
  /\ handled = {}
  /\ imports = <<>>
  /\ visitLog = <<>>
  /\ diags = <<>>
  /\ cleanups = <<>>
  /\ compiles = <<>>
  /\ pageResources = <<>>
  /\ output = <<>>
  /\ bundles = <<>>
  /\ selfContained = <<>>
  /\ pc = "start"
  /\ abortCause = "none"
  /\ callee \in {"withPuppeteerBrowserAndPage", "inPuppeteer"}
  /\ attempts = 0
  /\ outcomes = <<>>
  /\ retries = 0
  /\ control = "running"
  /\ returned = "none"
  /\ thrown = NoError

\* one iteration of the loop of withPuppeteerBrowserAndPage, lines 130-163:
\* the value withHeadlessBrowser returns is not used, the iteration returns
\* only if the callback has set finished
WithPuppeteerBrowserAndPageAttempt ==
  /\ callee = "withPuppeteerBrowserAndPage"
  /\ control = "running"
  /\ attempts < maxAttempts
  /\ attempts' = attempts + 1
  /\ \E browser \in fetchBrowser, fn \in callback :
       LET r == withHeadlessBrowser(browser, fn)
           finished == browser = Return("browser") /\ fn.kind = "return"
       IN /\ outcomes' = Append(outcomes, r)
          /\ IF r.kind = "throw"
             THEN IF retried(r.error, attempts')
                  THEN /\ retries' = retries + 1
                       /\ UNCHANGED <<control, returned, thrown>>
                  ELSE /\ control' = "threw"
                       /\ thrown' = r.error
                       /\ UNCHANGED <<retries, returned>>
             ELSE IF finished
                  THEN /\ control' = "returned"
                       /\ returned' = fn.value
                       /\ UNCHANGED <<retries, thrown>>
                  ELSE UNCHANGED <<retries, control, returned, thrown>>
  /\ UNCHANGED <<callee, engineVars>>

\* one iteration of the loop of inPuppeteer, lines 183-204: the value
\* withHeadlessBrowser returns is returned
InPuppeteerAttempt ==
  /\ callee = "inPuppeteer"
  /\ control = "running"
  /\ attempts < maxAttempts
  /\ attempts' = attempts + 1
  /\ \E browser \in fetchBrowser, fn \in callback :
       LET r == withHeadlessBrowser(browser, fn)
       IN /\ outcomes' = Append(outcomes, r)
          /\ IF r.kind = "throw"
             THEN IF retried(r.error, attempts')
                  THEN /\ retries' = retries + 1
                       /\ UNCHANGED <<control, returned, thrown>>
                  ELSE /\ control' = "threw"
                       /\ thrown' = r.error
                       /\ UNCHANGED <<retries, returned>>
             ELSE /\ control' = "returned"
                  /\ returned' = r.value
                  /\ UNCHANGED <<retries, thrown>>
  /\ UNCHANGED <<callee, engineVars>>

\* the loop condition attempts++ < maxAttempts is false: lines 164 and 205
LoopExhausted ==
  /\ control = "running"
  /\ ~(attempts < maxAttempts)
  /\ attempts' = attempts + 1
  /\ control' = "threw"
  /\ thrown' = InternalError
  /\ UNCHANGED <<callee, outcomes, retries, returned, engineVars>>

PuppeteerNext ==
  \/ WithPuppeteerBrowserAndPageAttempt
  \/ InPuppeteerAttempt
  \/ LoopExhausted

PuppeteerSpec == PuppeteerInit /\ [][PuppeteerNext]_vars
\* ====================================================================
\* Properties
\* ====================================================================
NoDupSeq(s) == \A i, j \in 1..Len(s) : i # j => s[i] # s[j]

\* the resolved dependencies the traversal finds in the file at path p
DepsOfFile(p) ==
  LET deps == directDependencies(FileAt(p), dirname(p), projectRoot) IN
  {deps[i].resolvedImportPath : i \in 1..Len(deps)}
DepsOfChunk ==
  LET deps == directDependencies(chunk, MdDir, projectRoot) IN
  {deps[i].resolvedImportPath : i \in 1..Len(deps)}

\* paths that were popped and could neither be read nor recovered
UnresolvedPaths == {p \in handled : ~FileAt(p).exists}

\* the absolute file a returned import description denotes
TargetOf(r) == resolve2(MdDir, r.filename)

ImportsOf(list) ==
  {i \in 1..Len(list) : list[i].resourceType = "import"}

\* a visited file imports itself or a file visited before it
HasBackEdge ==
  \E i \in 1..Len(visitLog) : \E j \in 1..i :
     visitLog[j] \in DepsOfFile(visitLog[i])

\* -------------------------------------------------------------------- C1
\* Termination of the worklist loop is stated with a variant. Every
\* iteration either handles a path that was not handled before or only
\* shortens the worklist; the handled paths are resolved references of the
\* sources read, of which a finite set of files has finitely many; and in
\* every state of the loop an iteration can be taken.
LoopProgress ==
  \/ Cardinality(handled') > Cardinality(handled)
  \/ handled' = handled /\ Len(imports') < Len(imports)

LoopTerminates ==
  /\ [](pc = "loop" =>
          /\ Cardinality(handled) <= MaxRefs
          /\ (imports # <<>> => ENABLED <<Next>>_vars))
  /\ [][pc = "loop" /\ pc' = "loop" => LoopProgress]_vars

\* C1 as stated: the loop terminates, and it always does so by reaching an
\* empty worklist: it is never left in another way.
C1_LoopAlwaysEmptiesWorklist ==
  /\ LoopTerminates
  /\ [][pc = "loop" /\ pc' # "loop" => imports = <<>>]_vars

\* C1 (amended): the loop terminates, also on cyclic and self-importing
\* graphs: it reaches an empty worklist or the call throws.
C1_Terminates ==
  /\ LoopTerminates
  /\ [][pc = "loop" /\ pc' # "loop" => imports = <<>> \/ pc' = "aborted"]_vars

\* a call on a graph with a cycle has reached the empty worklist
C1_Witness == pc = "loop" /\ imports = <<>> /\ HasBackEdge

\* -------------------------------------------------------------------- C2
\* C2, for the calls that recover no module with the compiler: no two import
\* descriptions of a returned list have the same filename.
C2_ReturnedFilenamesUnique ==
  (pc = "returned" /\ compiles = <<>>) =>
    \A i, j \in ImportsOf(result) :
       i # j => result[i].filename # result[j].filename

\* -------------------------------------------------------------------- C3
\* C3: a call in which an import could not be read or recovered does not
\* throw because of it: when such a call throws, the cause is another one
\* (a read file of unknown language, a failed compile, an attachment that is
\* not a string).
C3_MissingImportDoesNotAbort ==
  (pc = "aborted" /\ UnresolvedPaths # {}) =>
    abortCause \in {"unknown-language", "compile-failed", "type-error"}

\* -------------------------------------------------------------------- C4
\* C4: a path that could neither be read nor recovered is not the target of
\* an import description in the returned list.
C4_UnresolvedNotReturned ==
  pc = "returned" =>
    \A p \in UnresolvedPaths :
       \A i \in ImportsOf(result) : TargetOf(result[i]) # p

\* -------------------------------------------------------------------- C5
RECURSIVE ReachFrom(_, _)
ReachFrom(frontier, seen) ==
  IF frontier \subseteq seen THEN seen
  ELSE LET new == frontier \ seen IN
    ReachFrom(UNION { IF FileAt(p).exists /\ Language(p) # "unknown"
                      THEN DepsOfFile(p) ELSE {} : p \in new },
              seen \cup new)

\* the resolved paths reachable from the chunk through readable files
Reachable == ReachFrom(DepsOfChunk, {})

TimesVisited(p) == Cardinality({i \in 1..Len(visitLog) : visitLog[i] = p})

QmdVisited == {q \in Range(visitLog) : EndsWith(q, "qmd")}

\* C6: a returned list has no import description of a .qmd file, and it has
\* the files that the visited .qmd documents import.
C6_DocumentsTraversalOnly ==
  pc = "returned" =>
    /\ \A i \in ImportsOf(result) : ~EndsWith(result[i].filename, "qmd")
    /\ \A q \in QmdVisited : \A d \in DepsOfFile(q) :
          ~EndsWith(d, "qmd") =>
             \E i \in ImportsOf(result) : TargetOf(result[i]) = d

\* the chunk imports x.qmd, x.qmd imports a .js file, the call has returned
C6_Witness ==
  /\ pc = "returned"
  /\ \E q \in QmdVisited :
        /\ q \in DepsOfChunk
        /\ \E d \in DepsOfFile(q) :
              EndsWith(d, "js")
              /\ \E i \in ImportsOf(result) : TargetOf(result[i]) = d

\* -------------------------------------------------------------------- C7
\* C7: the plain-mode output has no path twice and no path ending in .qmd.
C7_PlainOutputNoDocuments ==
  pc = "done" =>
    /\ NoDupSeq(output)
    /\ \A i \in 1..Len(output) : ~EndsWith(output[i], "qmd")

\* -------------------------------------------------------------------- C8
\* p resolved against the directory base
ResolvedAgainst(base, p) == Abs(Normalize(base \o p))

\* C8: every description made from a reference p found in a file of
\* directory d has pathType root-relative and the path of p under the
\* project root (under d without a project root) when p starts with "/",
\* and pathType relative and p resolved against d when p starts with ".";
\* /lib/a.js of a document in /proj/sub with project root /proj is
\* /proj/lib/a.js.
C8_PathResolver ==
  pc = "loop" =>
    \A i \in 1..Len(result) :
       LET r == result[i]
           p == r.importPath
           d == dirname(r.referent)
       IN /\ StartsWithSlash(p) =>
               /\ r.pathType = "root-relative"
               /\ r.filename =
                    ResolvedAgainst(IF projectRoot = Undefined THEN d
                                    ELSE projectRoot, p)
          /\ StartsWithDot(p) =>
               /\ r.pathType = "relative"
               /\ r.filename = ResolvedAgainst(d, p)
          /\ (projectRoot = ProjDir /\ d = MdDir
              /\ p = <<"", "lib", "a.js">>) =>
               r.filename = <<"", "proj", "lib", "a.js">>

\* with project root /proj the chunk's /lib/a.js became /proj/lib/a.js and a
\* relative reference was resolved as well
C8_Witness ==
  /\ pc = "loop"
  /\ projectRoot = ProjDir
  /\ \E i, j \in 1..Len(result) :
        /\ result[i].importPath = <<"", "lib", "a.js">>
        /\ result[i].referent = rootReferent
        /\ result[i].filename = <<"", "proj", "lib", "a.js">>
        /\ result[j].pathType = "relative"
        /\ StartsWithDot(result[j].importPath)

\* -------------------------------------------------------------------- C9
\* C9: without a project root every root-relative import is resolved
\* against the directory of the document.
C9_RootRelativeAgainstDocument ==
  (pc = "loop" /\ projectRoot = Undefined) =>
    \A i \in 1..Len(result) :
       result[i].pathType = "root-relative" =>
          result[i].filename = ResolvedAgainst(MdDir, result[i].importPath)

\* ------------------------------------------------------------------- C10
\* C10: the de-duplicated resource set has at most one import description
\* for an absolute file, however the references to it are spelled.
C10_OnePerTarget ==
  LET u == uniqueResources(pageResources) IN
  \A i, j \in ImportsOf(u) : i # j => TargetOf(u[i]) # TargetOf(u[j])

\* two cells referred to one file with different spellings and the
\* de-duplicated set has exactly one description for it
C10_Witness ==
  /\ pc = "done"
  /\ \E i, j \in ImportsOf(pageResources) :
        /\ pageResources[i].importPath # pageResources[j].importPath
        /\ StartsWithDot(pageResources[i].importPath)
        /\ StartsWithDot(pageResources[j].importPath)
        /\ TargetOf(pageResources[i]) = TargetOf(pageResources[j])
        /\ LET u == uniqueResources(pageResources) IN
           Cardinality({k \in ImportsOf(u) :
                          TargetOf(u[k]) = TargetOf(pageResources[i])}) = 1

\* ------------------------------------------------------------------- C11
\* s starts with "./" or with "/"
StartsWithDotSlashOrSlash(s) == Len(s) > 0 /\ s[1] \in {".", ""}

\* C11: every description of a returned list, import or attachment, has a
\* filename that starts with "./" or "/".
C11_FilenamesNormalized ==
  pc = "returned" =>
    \A i \in 1..Len(result) : StartsWithDotSlashOrSlash(result[i].filename)

\* ------------------------------------------------------------------- C12
\* C12: a call goes on, or returns a list, only if every compiler run it
\* started reported success, the list-files run and the emit run alike.
C12_CompilerFailureAborts ==
  pc \in {"loop", "returned"} =>
    \A i \in 1..Len(compiles) : compiles[i].listOk /\ compiles[i].emitOk

\* ------------------------------------------------------------------- C13
\* what is known of the file at path q before and after a step
KnownReadable(q) == q \in DOMAIN fs /\ fs[q].exists
ReadableAfter(q) == q \in DOMAIN fs' /\ fs'[q].exists

\* C13: an iteration starts the compiler only for a path that ends in .js,
\* was not readable, and has a readable sibling of the same stem that ends
\* in .ts. An iteration that starts no compiler either read the file, or
\* warned that the reference could not be resolved: then the path does not
\* end in .js or the .ts sibling cannot be read.
C13_CompilerOnlyForMissingJs ==
  [][(pc = "loop" /\ handled' # handled) =>
       LET p == MapFirst(imports).filename
           ts == SubSeq(p, 1, Len(p) - 1) \o <<ReplaceExt(Last(p), "js", "ts")>>
           started == Len(compiles') > Len(compiles)
           warned == Len(diags') > Len(diags)
       IN /\ started =>
               /\ Ext(Last(p)) = "js"
               /\ ~KnownReadable(p)
               /\ Ext(Last(ts)) = "ts"
               /\ ReadableAfter(ts)
               /\ ts \in DOMAIN fs => fs[ts].exists
               /\ ~warned
          /\ ~started =>
               /\ warned \/ ReadableAfter(p)
               /\ warned =>
                    /\ ~ReadableAfter(p)
                    /\ Ext(Last(p)) = "js" => ~ReadableAfter(ts)
               /\ ReadableAfter(p) => (p \in DOMAIN fs => fs[p].exists)
     ]_vars

\* one call started the compiler for a missing .js file, read another file
\* directly, and warned about a third reference
C13_Witness ==
  /\ pc = "returned"
  /\ Len(compiles) = 1
  /\ diags # <<>>
  /\ \E q \in Range(visitLog) : q # compiles[1].file

\* ------------------------------------------------------------------- C14
\* C14: when an iteration recovers a module with the compiler and the
\* recovery reports created files, the iteration attaches a cleanup for
\* exactly these files to the lifetime, with or without a project root.
C14_CleanupAlwaysRegistered ==
  [][(pc = "loop" /\ pc' = "loop" /\ Len(compiles') > Len(compiles)) =>
       LET c == compiles'[Len(compiles')]
           created == createdResources(c.file, MapFirst(imports).referent,
                                       c.listOk)
       IN created # <<>> =>
            /\ Len(cleanups') = Len(cleanups) + 1
            /\ cleanups'[Len(cleanups')] = created
     ]_vars

\* ------------------------------------------------------------------- C15
\* the source text a description was found in
SourceOf(referent) ==
  IF referent = rootReferent THEN chunk ELSE FileAt(referent)

\* the visited files, and the chunk, whose text the parser rejects
BrokenVisited == {q \in Range(visitLog) : ~FileAt(q).ok}

\* C15: a text that the parser rejects contributes no description, the
\* iteration that reads such a .js, .ojs or .qmd file enqueues nothing and
\* stays in the loop, and a returned list still has the imports of every
\* other visited file and of the chunk.
C15_ParseFailureNeverAborts ==
  /\ [](pc \in {"loop", "returned"} =>
          \A i \in 1..Len(result) : SourceOf(result[i].referent).ok)
  /\ [](pc = "returned" =>
          /\ \A q \in Range(visitLog) \ BrokenVisited :
                \A d \in DepsOfFile(q) :
                   ~EndsWith(d, "qmd") =>
                      \E i \in ImportsOf(result) : TargetOf(result[i]) = d
          /\ chunk.ok =>
                \A j \in 1..Len(chunk.atts) :
                   \E i \in 1..Len(result) :
                      /\ result[i].resourceType = "FileAttachment"
                      /\ result[i].filename = chunk.atts[j].value)
  /\ [][(pc = "loop" /\ handled' # handled) =>
          LET p == MapFirst(imports).filename IN
          (Language(p) # "unknown" /\ ReadableAfter(p) /\ ~fs'[p].ok) =>
             /\ pc' = "loop"
             /\ Len(imports') = Len(imports) - 1
             /\ Len(compiles') = Len(compiles) => result' = result
       ]_vars

\* a call has returned that read a file with references the parser rejected
\* and returns a reference found in another file
C15_Witness ==
  /\ pc = "returned"
  /\ \E q \in BrokenVisited : RefsIn(FileAt(q)) > 0
  /\ \E i \in 1..Len(result) : result[i].referent # rootReferent

HasJsImport == \E i \in 1..Len(pageResources) : IsJsImport(pageResources[i])

\* the entries of the returned mapping whose payload is the bundled module
BundleEntries ==
  {i \in 1..Len(selfContained) :
     "bundleOf" \in DOMAIN selfContained[i][2].content}

C18_ResultIsMapping ==
  pc = "packed" =>
    \A k, l \in 1..Len(selfContained) :
       selfContained[k][1] = selfContained[l][1] =>
          selfContained[k][2] = selfContained[l][2]

\* ------------------------------------------------------------------- C19
\* where the rule for root-relative references puts the path p
RootRelativeTarget(p) ==
  ResolvedAgainst(IF projectRoot = Undefined THEN MdDir ELSE projectRoot, p)

\* C19: in the plain-mode output every attachment whose name starts with
\* "/" is the path under the project root, or under the directory of the
\* document when there is no project root.
C19_RootRelativeAttachment ==
  pc = "done" =>
    LET u == uniqueResources(pageResources) IN
    \A i \in 1..Len(u) :
       (u[i].resourceType = "FileAttachment"
        /\ u[i].pathType = "root-relative") =>
          LET target == RootRelativeTarget(u[i].filename) IN
          /\ resolveResourceFilename(u[i], Cwd) = target
          /\ \E k \in 1..Len(output) : output[k] = target

\* ------------------------------------------------------------------- C20
\* the (filename, pathType) pairs of a resource list
Pairs(list) == {<<list[i].filename, list[i].pathType>> : i \in 1..Len(list)}

\* C20: when a call returns that was given the same source as the call
\* before it, the two returned lists have the same (filename, pathType)
\* pairs.
C20_SecondRunSameSet ==
  (pc = "returned" /\ previous.source.exists /\ previous.source = chunk) =>
     Pairs(result) = Pairs(previous.result)

\* ------------------------------------------------------------------- C21
\* the source strings of this run that start with neither "." nor "/"
BareSpecifiers ==
  {s \in vocab.imports : ~StartsWithSlash(s) /\ ~StartsWithDot(s)}

\* C21: a source string that starts with neither "." nor "/" is the import
\* path of no description (of the running call, of its worklist, of the
\* page), is named by no warning, and no path made from it is tried or read.
C21_BareSpecifierDropped ==
  \A s \in BareSpecifiers :
     /\ \A i \in 1..Len(result) : result[i].importPath # s
     /\ \A i \in 1..Len(imports) : imports[i].importPath # s
     /\ \A i \in 1..Len(pageResources) : pageResources[i].importPath # s
     /\ \A i \in 1..Len(diags) : diags[i].reference # s
     /\ \A p \in handled \cup DOMAIN fs : Last(p) # Last(s)

\* a call has returned whose chunk and one of whose visited files import a
\* package, next to a local module
C21_Witness ==
  /\ pc = "returned"
  /\ \E s \in BareSpecifiers :
        /\ chunk.ok /\ s \in Range(chunk.imports)
        /\ \E q \in Range(visitLog) :
              FileAt(q).ok /\ s \in Range(FileAt(q).imports)
  /\ result # <<>>

\* ------------------------------------------------------------------- C22
\* C22: for every import description of a returned list,
\* resolveResourceFilename gives the absolute path the traversal made the
\* description for: the path its filename, relative to the directory of the
\* document, denotes.
C22_ResolvesToFollowedFile ==
  pc = "returned" =>
    \A i \in ImportsOf(result) :
       resolveResourceFilename(result[i], Cwd) = TargetOf(result[i])

\* ------------------------------------------------------------------- C23
\* the handled paths for which resolveImport returned undefined: they could
\* not be read and no compiler was started for them
NotRecoverable ==
  {p \in handled :
     ~FileAt(p).exists /\ \A i \in 1..Len(compiles) : compiles[i].file # p}

\* the resolved path a warning is about
DiagPath(d) ==
  resolveES6Path(d.reference, dirname(d.inFile), projectRoot).resolvedImportPath

\* the descriptions made for references to path p, in the order made
Enqueuers(p) ==
  {i \in 1..Len(result) :
     result[i].filename = p /\ result[i].importPath \in vocab.imports}

\* C23: in every state of a call each handled path that could neither be
\* read nor recovered has exactly one warning, every warning is about such a
\* path (none about a path that was read), and a warning names the import
\* string and the referent of the first description enqueued for its path.
C23_OneWarningPerUnresolved ==
  /\ \A p \in NotRecoverable :
        Cardinality({i \in 1..Len(diags) : DiagPath(diags[i]) = p}) = 1
  /\ \A i \in 1..Len(diags) :
        /\ DiagPath(diags[i]) \in NotRecoverable
        /\ DiagPath(diags[i]) \notin Range(visitLog)
  /\ pc = "loop" =>
       \A i \in 1..Len(diags) :
          LET first == CHOOSE k \in Enqueuers(DiagPath(diags[i])) :
                          \A l \in Enqueuers(DiagPath(diags[i])) : k <= l
          IN /\ Enqueuers(DiagPath(diags[i])) # {}
             /\ diags[i].reference = result[first].importPath
             /\ diags[i].inFile = result[first].referent

\* the worklist is empty after a path that cannot be read was enqueued by
\* the chunk and again by a file that was read, and was warned about once
C23_Witness ==
  /\ pc = "loop" /\ imports = <<>>
  /\ visitLog # <<>>
  /\ \E p \in NotRecoverable :
        /\ Cardinality(Enqueuers(p)) >= 2
        /\ \E i, j \in Enqueuers(p) : result[i].referent # result[j].referent
        /\ Len(diags) = 1

\* ------------------------------------------------------------------- C24
\* the descriptions made for a reference of a source text (the others are
\* the files the compiler reports)
FromSource(list) ==
  {i \in 1..Len(list) : list[i].importPath \in vocab.imports}

\* C24: while the traversal runs, the referent of every description made
\* for a reference is the root referent in the directory of the document or
\* the absolute path of a visited file, the text of the referent has the
\* reference, and its filename is the reference resolved with the directory
\* of the referent as origin: a relative reference is resolved against that
\* directory.
C24_ResolvedAgainstReferent ==
  pc = "loop" =>
    \A i \in FromSource(result) :
       LET r == result[i] IN
       /\ r.referent = rootReferent \/ r.referent \in Range(visitLog)
       /\ dirname(rootReferent) = MdDir
       /\ SourceOf(r.referent).ok
       /\ r.importPath \in Range(SourceOf(r.referent).imports)
       /\ r.filename =
            resolveES6Path(r.importPath, dirname(r.referent),
                           projectRoot).resolvedImportPath
       /\ StartsWithDot(r.importPath) =>
            r.filename = ResolvedAgainst(dirname(r.referent), r.importPath)

\* a relative reference of a visited file in another directory was resolved
\* to a path other than the one under the directory of the document, next to
\* a reference of the chunk
C24_Witness ==
  /\ pc = "loop"
  /\ \E i, j \in FromSource(result) :
        /\ result[i].referent = rootReferent
        /\ result[j].referent \in Range(visitLog)
        /\ dirname(result[j].referent) # MdDir
        /\ StartsWithDot(result[j].importPath)
        /\ result[j].filename # ResolvedAgainst(MdDir, result[j].importPath)

\* ------------------------------------------------------------------- C25
\* the attachment descriptions of a list, as (literal, referent) pairs
AttachmentPairs(list) ==
  {<<list[i].filename, list[i].referent>> :
     i \in {k \in 1..Len(list) : list[k].resourceType = "FileAttachment"}}

\* the FileAttachment literals of a text that parses, with the file they
\* are in
LiteralPairs(source, file) ==
  IF source.ok
  THEN {<<source.atts[j].value, file>> : j \in 1..Len(source.atts)}
  ELSE {}

\* the imported modules of this call whose path ends in .ojs
OjsModules == {q \in handled : EndsWith(q, "ojs")}

\* C25: the attachment descriptions of a returned list are the literals of
\* the chunk, with the root referent, and the literals of the imported .ojs
\* modules, each with the path of its module as referent; every other
\* description is an import, and no attachment has a .js module as referent.
C25_AttachmentsOfChunkAndOjs ==
  pc = "returned" =>
    /\ AttachmentPairs(result) =
         LiteralPairs(chunk, rootReferent)
         \cup UNION {LiteralPairs(FileAt(q), q) : q \in OjsModules}
    /\ \A i \in 1..Len(result) :
          /\ result[i].resourceType \in {"import", "FileAttachment"}
          /\ result[i].resourceType = "FileAttachment" =>
               ~EndsWith(result[i].referent, "js")

\* a returned list has a literal of the chunk and a literal of an imported
\* .ojs module
C25_Witness ==
  /\ pc = "returned"
  /\ \E q \in OjsModules :
        /\ LiteralPairs(FileAt(q), q) # {}
        /\ LiteralPairs(FileAt(q), q) \subseteq AttachmentPairs(result)
  /\ LiteralPairs(chunk, rootReferent) # {}
  /\ LiteralPairs(chunk, rootReferent) \subseteq AttachmentPairs(result)

\* a call has returned that visited a .js module with a literal in it
C25_JsLiteralSeen ==
  /\ pc = "returned"
  /\ \E q \in Range(visitLog) :
        EndsWith(q, "js") /\ FileAt(q).ok /\ FileAt(q).atts # <<>>

\* ------------------------------------------------------------------- C26
\* the positions of a list at which a filename occurs for the first time
FirstOccurrences(list) ==
  {i \in 1..Len(list) :
     \A j \in 1..(i - 1) : list[j].filename # list[i].filename}

\* the elements of a list at the positions in S, in the order of the list
Restrict(list, S) ==
  [k \in 1..Cardinality(S) |->
     list[CHOOSE i \in S : Cardinality({j \in S : j <= i}) = k]]

\* C26: uniqueResources of the resource list of the page is the list of the
\* first occurrences of its filenames, in the order of the list, and
\* uniqueResources leaves that result as it is.
C26_FirstOccurrenceKept ==
  LET u == uniqueResources(pageResources) IN
  /\ u = Restrict(pageResources, FirstOccurrences(pageResources))
  /\ uniqueResources(u) = u

\* the list of a page has a filename in two descriptions that differ, and
\* other filenames, and was de-duplicated
C26_Witness ==
  /\ pc \in {"done", "packed"}
  /\ \E i, j \in 1..Len(pageResources) :
        /\ i < j
        /\ pageResources[i].filename = pageResources[j].filename
        /\ pageResources[i] # pageResources[j]
  /\ Len(uniqueResources(pageResources)) >= 2

\* ------------------------------------------------------------------- C27
\* the texts the attachment pass of this call parses: the chunk and the
\* imported .ojs modules
AttachmentTexts ==
  {t \in {chunk} \cup {FileAt(q) : q \in OjsModules} : t.exists /\ t.ok}

\* a FileAttachment call of such a text has a literal that is not a string
NonStringLiteral ==
  \E t \in AttachmentTexts :
     \E j \in 1..Len(t.atts) : t.atts[j].type # "string"

\* C27: a call whose chunk or imported .ojs module has a FileAttachment call
\* with a literal that is not a string does not throw because of it, and the
\* list it returns has the string literals only.
C27_NonStringLiteralSkipped ==
  /\ abortCause # "type-error"
  /\ (pc = "loop" /\ imports = <<>> /\ NonStringLiteral
      /\ ~SecondPassReadFails) => ENABLED FinishChunk

\* ------------------------------------------------------------------- C28
\* the attachment descriptions of the page
AttachmentsOfPage ==
  {i \in 1..Len(pageResources) :
     pageResources[i].resourceType = "FileAttachment"}

\* C28: the file every attachment description of the page denotes is in the
\* plain-mode output, and its content is a payload of the self-contained
\* mapping: de-duplication drops no file that differs from the ones kept.
C28_NoDistinctFileDropped ==
  /\ pc = "done" =>
       \A i \in AttachmentsOfPage :
          resolveResourceFilename(pageResources[i], Cwd) \in Range(output)
  /\ pc = "packed" =>
       \A i \in AttachmentsOfPage :
          \E k \in 1..Len(selfContained) :
             selfContained[k][2].content =
               readTextFileSync(resolveResourceFilename(pageResources[i], Cwd))

\* ------------------------------------------------------------------- C29
\* the attempts after which a further attempt was started
Repeated == 1..(Len(outcomes) - 1)

\* C29: a call makes at most 5 attempts, every attempt that was followed by
\* a further one failed with an error whose message is in the allowed list,
\* and an attempt that fails with another message, or fails as the 5th, is
\* the last one and its error is thrown to the caller.
C29_RetryOnlyAfterAllowedError ==
  /\ Len(outcomes) <= 5
  /\ \A k \in Repeated :
        /\ outcomes[k].kind = "throw"
        /\ outcomes[k].error.message \in allowedErrorMessages
  /\ \A k \in 1..Len(outcomes) :
        (/\ outcomes[k].kind = "throw"
         /\ outcomes[k].error.message \notin allowedErrorMessages \/ k = 5) =>
           /\ k = Len(outcomes)
           /\ control = "threw"
           /\ thrown = outcomes[k].error

\* ------------------------------------------------------------------- C30
\* C30: the final throw of the two functions is never reached: a call that
\* returns returns the result of the callback, and a call that throws throws
\* the error its last attempt failed with.
C30_FinalThrowUnreachable ==
  /\ thrown # InternalError
  /\ control = "returned" => returned = "result"
  /\ control = "threw" =>
       /\ outcomes # <<>>
       /\ outcomes[Len(outcomes)].kind = "throw"
       /\ outcomes[Len(outcomes)].error = thrown

====
